---- MODULE Spec2Model ----
(***************************************************************************)
(* RoadBumps analyzer: FIT message extraction into positions, the Track    *)
(* analysis operations (rolling average of absolute accelerations with     *)
(* memoisation, time slicing) and the Attenuator.                          *)
(*                                                                         *)
(* Time is counted in microseconds, the resolution of the datetime and     *)
(* duration types the code uses.  Optional values (Python None) are        *)
(* sequences of length 0 or 1.  Floats that can be infinite are records    *)
(* [inf, v]; quotients are kept as exact fractions [num, den].             *)
(***************************************************************************)
EXTENDS Integers, Sequences, FiniteSets, TLC

VARIABLES
    impl,        \* which of the two implementations runs: "data" or "analyze"
    status,      \* "parsing" | "raised" | "returned"
    exception,   \* what was raised ("" while nothing was)
    message,     \* loop variable of parse: the message handled last (optional)
    messages,    \* the timestamp fields of fit_file.messages read so far
    positions,   \* the positions list (Track._positions once returned)
    log,         \* records emitted through the logger
    call,        \* the Track method called last and its arguments (optional)
    result,      \* what that call returned (optional)
    slicer       \* the time_slices generator (optional)

vars == <<impl, status, exception, message, messages, positions, log, call,
          result, slicer>>

-----------------------------------------------------------------------------
(* Bounds of the model *)

MaxMessages == 2
MaxPositions == 3
MaxCalls == 2

-----------------------------------------------------------------------------
(* Values *)

None == <<>>
Some(v) == <<v>>
IsNone(o) == o = <<>>
IsSome(o) == o # <<>>
Value(o) == o[1]

MicrosPerSecond == 1000000

\* float: a finite number, or +/- infinity
Fin(n) == [inf |-> 0, v |-> n]
PosInf == [inf |-> 1, v |-> 0]
NegInf == [inf |-> -1, v |-> 0]
isinf(x) == x.inf # 0

\* float + int
FloatAdd(x, n) == IF isinf(x) THEN x ELSE Fin(x.v + n)

\* abs(float)
FloatAbs(x) ==
    IF isinf(x) THEN PosInf
    ELSE IF x.v < 0 THEN Fin(0 - x.v) ELSE x

-----------------------------------------------------------------------------
(* Constants of the program *)

EXPECTED_ACCEL_VALUES_PER_MESSAGE == 25

GRAVITY_MILLIG == 981

\* the raw int16 values _parse_raw_accel recognises
RawMissing == -32768
RawBelowRange == -32767
RawAboveRange == 32767

-----------------------------------------------------------------------------
(* A FIT message, as fitparse hands it over.                               *)
(*   ts     optional 'timestamp' field: [datetime, v]; datetime tells       *)
(*          whether the value is a datetime (v microseconds)                *)
(*   lon    optional 'position_long' field, semicircles                     *)
(*   lat    optional 'position_lat' field, semicircles                      *)
(*   speed  optional 'enhanced_speed' field, m/s                            *)
(*   fields the remaining fields, in file order: [name, value], where a     *)
(*          name is [text, start, end]: text "accel_z_<start>-<end>" is     *)
(*          the name of an acceleration sub-field, any other text stands    *)
(*          for itself                                                      *)

AccelZ == "accel_z_<start>-<end>"

FieldName(text, start, end) == [text |-> text, start |-> start, end |-> end]

Field(name, value) == [name |-> name, value |-> value]

\* field.name.startswith('accel')
startswith_accel(name) == name.text \in {AccelZ, "accel_x"}

\* re.match(r'accel_z_(\d+)-(\d+)', field.name)
name_matches(name) == name.text = AccelZ

\* _field_value(message, 'timestamp', _pendulum_datetime / datetime.datetime):
\* a timestamp field that holds no datetime gives None
field_value_timestamp(m) ==
    IF IsSome(m.ts) /\ Value(m.ts).datetime THEN Some(Value(m.ts).v) ELSE None

\* _field_value(message, name)
field_value(m, name) ==
    CASE name = "position_long" -> m.lon
      [] name = "position_lat" -> m.lat
      [] name = "enhanced_speed" -> m.speed

\* _accel_field_bounds: (start, end) of a field whose name matches
accel_field_bounds(field) == <<field.name.start, field.name.end>>

\* tuple comparison a <= b on (start, end)
BoundsLeq(a, b) == a[1] < b[1] \/ (a[1] = b[1] /\ a[2] <= b[2])

\* one step of the stable sort: f goes behind every field that is <= f
RECURSIVE insert_sorted(_, _)
insert_sorted(f, fs) ==
    IF fs = <<>> THEN <<f>>
    ELSE IF BoundsLeq(accel_field_bounds(Head(fs)), accel_field_bounds(f))
         THEN <<Head(fs)>> \o insert_sorted(f, Tail(fs))
         ELSE <<f>> \o fs

\* sorted(fields, key=_accel_field_bounds)
RECURSIVE sorted_by_bounds(_)
sorted_by_bounds(fs) ==
    IF fs = <<>> THEN <<>>
    ELSE insert_sorted(fs[Len(fs)], sorted_by_bounds(SubSeq(fs, 1, Len(fs) - 1)))

\* _parse_raw_accel
parse_raw_accel(raw_accel) ==
    IF raw_accel = RawMissing THEN None
    ELSE IF raw_accel = RawBelowRange THEN Some(NegInf)
    ELSE IF raw_accel = RawAboveRange THEN Some(PosInf)
    ELSE Some(Fin(raw_accel))

\* _assert_valid_accel_fields without the loop over the pairs
assert_valid_accel_fields_start_only(accel_fields) ==
    IF accel_field_bounds(accel_fields[1])[1] # 0
    THEN "Acceleration fields don't start at 0."
    ELSE ""

\* _assert_valid_accel_fields: "" or the ParseError raised
RECURSIVE pairwise_consecutive(_)
pairwise_consecutive(fs) ==
    IF Len(fs) < 2 THEN TRUE
    ELSE /\ accel_field_bounds(fs[2])[1] = accel_field_bounds(fs[1])[2]
         /\ pairwise_consecutive(Tail(fs))

assert_valid_accel_fields(accel_fields) ==
    IF accel_field_bounds(accel_fields[1])[1] # 0
    THEN "Acceleration fields don't start at 0."
    ELSE IF ~pairwise_consecutive(accel_fields)
    THEN "Acceleration fields aren't consecutive."
    ELSE ""

\* the inner loop of _extract_accels without reached_end
RECURSIVE scan_values_skipping_nulls(_, _, _)
scan_values_skipping_nulls(values, accels, reached_end) ==
    IF values = <<>>
    THEN [error |-> "", accels |-> accels, reached_end |-> reached_end]
    ELSE LET accel == parse_raw_accel(Head(values))
         IN IF IsNone(accel)
            THEN scan_values_skipping_nulls(Tail(values), accels, reached_end)
            ELSE scan_values_skipping_nulls(Tail(values),
                                            Append(accels, Value(accel)),
                                            reached_end)

\* the inner loop of _extract_accels over one field's values
RECURSIVE scan_values(_, _, _)
scan_values(values, accels, reached_end) ==
    IF values = <<>>
    THEN [error |-> "", accels |-> accels, reached_end |-> reached_end]
    ELSE LET accel == parse_raw_accel(Head(values))
         IN IF IsNone(accel)
            THEN scan_values(Tail(values), accels, TRUE)
            ELSE IF reached_end
            THEN [error |-> "Encountered acceleration value after first null.",
                  accels |-> accels, reached_end |-> reached_end]
            ELSE scan_values(Tail(values), Append(accels, Value(accel)), FALSE)

\* the outer loop of _extract_accels over the fields
RECURSIVE scan_fields(_, _, _)
scan_fields(fs, accels, reached_end) ==
    IF fs = <<>>
    THEN [error |-> "", accels |-> accels, reached_end |-> reached_end]
    ELSE LET bounds == accel_field_bounds(Head(fs))
         IN IF Len(Head(fs).value) # bounds[2] - bounds[1]
            THEN [error |-> "Mismatched acceleration value counts.",
                  accels |-> accels, reached_end |-> reached_end]
            ELSE LET r == scan_values(Head(fs).value, accels, reached_end)
                 IN IF r.error # "" THEN r
                    ELSE scan_fields(Tail(fs), r.accels, r.reached_end)

Raised(kind, detail) == [kind |-> kind, detail |-> detail, accels |-> <<>>]

\* Does the object _extract_accels runs on have the attribute
\* EXPECTED_ACCEL_VALUES_PER_MESSAGE?  Both files define it in class Track.
\* In analyze.py _extract_accels is a classmethod of Track; in data.py it is
\* a method of FitFileParser, whose classes (FitFileParser, Parser) do not
\* define it.
has_expected_accel_values_per_message == impl = "analyze"

\* _extract_accels
extract_accels(accel_fields) ==
    LET r == scan_fields(accel_fields, <<>>, FALSE)
    IN IF r.error # "" THEN Raised("ParseError", r.error)
       ELSE IF ~has_expected_accel_values_per_message
       THEN Raised("AttributeError", "EXPECTED_ACCEL_VALUES_PER_MESSAGE")
       ELSE IF Len(r.accels) # EXPECTED_ACCEL_VALUES_PER_MESSAGE
       THEN Raised("IncompletePositionData",
                   "Unexpected number of acceleration values.")
       ELSE [kind |-> "ok", detail |-> "", accels |-> r.accels]

\* the fields whose name starts with 'accel', in message order
accel_named(m) == SelectSeq(m.fields, LAMBDA f : startswith_accel(f.name))

\* _extract_position_data: [kind, detail, accels]; kind "ok" gives the accels,
\* any other kind names the exception raised
extract_position_data(m) ==
    LET ts == field_value_timestamp(m)
        lon_semicircles == field_value(m, "position_long")
        lat_semicircles == field_value(m, "position_lat")
        speed == field_value(m, "enhanced_speed")
        named == accel_named(m)
    IN \* the sort key raises on a name that does not match
       IF \E i \in 1..Len(named) : ~name_matches(named[i].name)
       THEN Raised("ParseError", "Invalid acceleration field name.")
       ELSE LET accel_fields == sorted_by_bounds(named)
            IN IF \/ IsNone(ts) \/ IsNone(lon_semicircles)
                  \/ IsNone(lat_semicircles) \/ IsNone(speed)
                  \/ accel_fields = <<>>
               THEN IF \/ IsSome(lon_semicircles) \/ IsSome(lat_semicircles)
                       \/ IsSome(speed) \/ accel_fields # <<>>
                    THEN Raised("IncompletePositionData",
                         "Not all expected values were present, but some were.")
                    ELSE Raised("IncompletePositionData",
                                "Not a position message.")
               ELSE LET invalid == assert_valid_accel_fields(accel_fields)
                    IN IF invalid # "" THEN Raised("ParseError", invalid)
                       ELSE extract_accels(accel_fields)

-----------------------------------------------------------------------------
(* Positions *)

\* math.degrees((semicircles * math.pi) / 0x80000000), as the exact fraction
\* semicircles * 180 / 2^31 = semicircles * 45 / 2^29
SemicircleDen == 536870912
semicircles_to_deg(semicircles) ==
    [num |-> semicircles * 45, den |-> SemicircleDen]

\* _adjusted_accel with a given baseline
AnalyzeBaselineMillig == 1000
adjusted_accel(accel) ==
    FloatAdd(accel, IF impl = "data" THEN GRAVITY_MILLIG
                    ELSE AnalyzeBaselineMillig)

\* duration(seconds=1 / len(accels)), rounded to microseconds
seconds_per_accel(n) == (2 * MicrosPerSecond + n) \div (2 * n)

Position(ts, lon, lat, speed, accel) ==
    [ts |-> ts, lon |-> lon, lat |-> lat, speed |-> speed, accel |-> accel,
     analysis_data |-> {}]

\* the positions the parse loop appends for one extracted message
message_positions(m, accels) ==
    [i \in 1..Len(accels) |->
        Position(Value(field_value_timestamp(m))
                     + (i - 1) * seconds_per_accel(Len(accels)),
                 semicircles_to_deg(Value(m.lon)),
                 semicircles_to_deg(Value(m.lat)),
                 Value(m.speed),
                 adjusted_accel(accels[i]))]

-----------------------------------------------------------------------------
(* Exact arithmetic for the values the analysis computes: a real is        *)
(* [inf, num, den] with inf = 0 for the fraction num/den in lowest terms,  *)
(* 1 and -1 for the infinities and 2 for NaN.                              *)

RECURSIVE GCD(_, _)
GCD(a, b) == IF b = 0 THEN a ELSE GCD(b, a % b)

Abs(n) == IF n < 0 THEN 0 - n ELSE n

Real(n, d) ==
    LET sign == IF d < 0 THEN -1 ELSE 1
        g == GCD(Abs(n), Abs(d))
    IN [inf |-> 0, num |-> (sign * n) \div g, den |-> (sign * d) \div g]

RealInf(sign) == [inf |-> sign, num |-> 0, den |-> 1]
RealNaN == [inf |-> 2, num |-> 0, den |-> 1]

RealMul(x, y) == Real(x.num * y.num, x.den * y.den)
RealAdd(x, y) == Real(x.num * y.den + y.num * x.den, x.den * y.den)
RealSub(x, y) == Real(x.num * y.den - y.num * x.den, x.den * y.den)
RealLess(x, y) == x.num * y.den < y.num * x.den

RECURSIVE RealPow(_, _)
RealPow(x, e) == IF e = 0 THEN Real(1, 1) ELSE RealMul(x, RealPow(x, e - 1))

-----------------------------------------------------------------------------
(* The continuity check of the parsers: it only writes to the log.         *)

LogRecord(level, text, values) ==
    [level |-> level, text |-> text, values |-> values]

\* the timestamps among the messages' timestamp fields that are not None
timestamps_present(msgs) == SelectSeq(msgs, LAMBDA ts : IsSome(ts))

\* _check_start_end_offsets that warns of a single position as of none
check_start_end_offsets_needing_two(msgs, ps) ==
    IF Len(ps) <= 1
    THEN [raised |-> "", start_ts |-> None, end_ts |-> None,
          log |-> <<LogRecord("warning", "No complete positions in track.",
                              <<>>)>>]
    ELSE IF timestamps_present(msgs) = <<>>
    THEN [raised |-> "StopIteration", start_ts |-> None, end_ts |-> None,
          log |-> <<>>]
    ELSE LET start_ts == ps[1].ts
             end_ts == ps[Len(ps)].ts
             present == timestamps_present(msgs)
             messages_start_ts == Value(present[1])
             messages_end_ts == Value(present[Len(present)])
             start_offset == start_ts - messages_start_ts
             end_offset == messages_end_ts - end_ts
         IN [raised |-> "", start_ts |-> Some(start_ts), end_ts |-> Some(end_ts),
             log |-> <<LogRecord("info", "Parsed track spanning",
                                 <<start_ts, end_ts, end_ts - start_ts>>)>>
                     \o (IF start_offset # 0 \/ end_offset # 0
                         THEN <<LogRecord("info",
                                   "Messages start earlier and end later",
                                   <<start_offset, end_offset>>)>>
                         ELSE <<>>)]

\* _check_start_end_offsets: [raised, log, start_ts, end_ts]
check_start_end_offsets(msgs, ps) ==
    IF ps = <<>>
    THEN \* positions[0] raises IndexError, which is caught
         [raised |-> "", start_ts |-> None, end_ts |-> None,
          log |-> <<LogRecord("warning", "No complete positions in track.",
                              <<>>)>>]
    ELSE IF timestamps_present(msgs) = <<>>
    THEN \* next() on an exhausted generator
         [raised |-> "StopIteration", start_ts |-> None, end_ts |-> None,
          log |-> <<>>]
    ELSE LET start_ts == ps[1].ts
             end_ts == ps[Len(ps)].ts
             present == timestamps_present(msgs)
             messages_start_ts == Value(present[1])
             messages_end_ts == Value(present[Len(present)])
             start_offset == start_ts - messages_start_ts
             end_offset == messages_end_ts - end_ts
         IN [raised |-> "", start_ts |-> Some(start_ts), end_ts |-> Some(end_ts),
             log |-> <<LogRecord("info", "Parsed track spanning",
                                 <<start_ts, end_ts, end_ts - start_ts>>)>>
                     \o (IF start_offset # 0 \/ end_offset # 0
                         THEN <<LogRecord("info",
                                   "Messages start earlier and end later",
                                   <<start_offset, end_offset>>)>>
                         ELSE <<>>)]

\* the pairwise loop with a pair exactly one second apart taken for a gap
RECURSIVE continuity_intervals_one_second_is_gap(_, _, _, _)
continuity_intervals_one_second_is_gap(ps, i, intervals, interval_start_ts) ==
    IF i >= Len(ps)
    THEN IF IsSome(interval_start_ts)
         THEN Append(intervals, <<Value(interval_start_ts), ps[Len(ps)].ts>>)
         ELSE intervals
    ELSE IF IsNone(interval_start_ts)
    THEN continuity_intervals_one_second_is_gap(ps, i, intervals,
             Some(ps[i].ts))
    ELSE IF ps[i].ts + MicrosPerSecond > ps[i + 1].ts
    THEN continuity_intervals_one_second_is_gap(ps, i + 1, intervals,
             interval_start_ts)
    ELSE continuity_intervals_one_second_is_gap(ps, i + 1,
             Append(intervals, <<Value(interval_start_ts), ps[i].ts>>),
             Some(ps[i + 1].ts))

\* the pairwise loop of _check_position_continuity from pair i on:
\* the intervals closed so far and the start of the open one
RECURSIVE continuity_intervals(_, _, _, _)
continuity_intervals(ps, i, intervals, interval_start_ts) ==
    IF i >= Len(ps)
    THEN IF IsSome(interval_start_ts)
         THEN Append(intervals, <<Value(interval_start_ts), ps[Len(ps)].ts>>)
         ELSE intervals
    ELSE IF IsNone(interval_start_ts)
    THEN \* interval_start_ts = interval_start_ts or p1.ts
         continuity_intervals(ps, i, intervals, Some(ps[i].ts))
    ELSE IF ps[i].ts + MicrosPerSecond >= ps[i + 1].ts
    THEN \* at_most_one_second_apart
         continuity_intervals(ps, i + 1, intervals, interval_start_ts)
    ELSE continuity_intervals(ps, i + 1,
             Append(intervals, <<Value(interval_start_ts), ps[i].ts>>),
             Some(ps[i + 1].ts))

\* sum(right_start - left_end for pairwise(intervals))
RECURSIVE sum_discontinuous(_)
sum_discontinuous(intervals) ==
    IF Len(intervals) < 2 THEN 0
    ELSE (intervals[2][1] - intervals[1][2]) + sum_discontinuous(Tail(intervals))

\* f'{discontinuous_fraction*100:.2f}': the percentage in hundredths of a
\* percent, rounded to the nearest (a tie, which the decimal expansion of a
\* binary float hardly ever is, to the even one)
format_percent_2f(fraction) ==
    LET scaled == fraction.num * 10000
        q == scaled \div fraction.den
        r == scaled - q * fraction.den
    IN IF 2 * r < fraction.den THEN q
       ELSE IF 2 * r > fraction.den THEN q + 1
       ELSE IF q % 2 = 0 THEN q ELSE q + 1

\* _check_position_continuity: [raised, log]
check_position_continuity(msgs, ps) ==
    LET offsets == check_start_end_offsets(msgs, ps)
        intervals == continuity_intervals(ps, 1, <<>>, None)
        discontinuous_duration == sum_discontinuous(intervals)
    IN IF offsets.raised # "" THEN [raised |-> offsets.raised, log |-> offsets.log]
       ELSE IF discontinuous_duration = 0
       THEN [raised |-> "", log |-> offsets.log]
       ELSE IF Value(offsets.end_ts) = Value(offsets.start_ts)
       THEN [raised |-> "ZeroDivisionError", log |-> offsets.log]
       ELSE [raised |-> "",
             log |-> Append(offsets.log,
                        LogRecord("info", "There are discontinuities",
                            <<Len(intervals) - 1, discontinuous_duration,
                              format_percent_2f(
                                  Real(discontinuous_duration,
                                       Value(offsets.end_ts)
                                         - Value(offsets.start_ts)))>>))]

-----------------------------------------------------------------------------
(* The messages the model reads *)

\* a real acceleration, in milli-g, for the value at index i
RealRaw(i) == ((i * 13) % 50) - 1025

RawKinds == {"real", "inf", "real25", "real10", "missing", "hole", "first"}

\* n raw values of one message
Raws(kind, n) ==
    [i \in 1..n |->
        CASE kind = "real" -> RealRaw(i)
          [] kind = "inf" -> IF i = 3 THEN RawAboveRange
                             ELSE IF i = 7 THEN RawBelowRange ELSE RealRaw(i)
          [] kind = "real25" -> IF i <= 25 THEN RealRaw(i) ELSE RawMissing
          [] kind = "real10" -> IF i <= 10 THEN RealRaw(i) ELSE RawMissing
          [] kind = "missing" -> RawMissing
          [] kind = "hole" -> IF i = 13 THEN RawMissing ELSE RealRaw(i)
          [] kind = "first" -> IF i = 1 THEN RawMissing ELSE RealRaw(i)]

\* the (start, end) of the sub-fields of one message, in file order
Layouts ==
    { <<<<0, 25>>>>,
      <<<<13, 25>>, <<0, 13>>>>,
      <<<<0, 13>>, <<13, 26>>>>,
      <<<<0, 12>>, <<13, 25>>>>,
      <<<<1, 26>>>>,
      <<<<0, 2>>>> }

LayoutEnd(layout) ==
    CHOOSE e \in {layout[k][2] : k \in 1..Len(layout)} :
        \A k \in 1..Len(layout) : layout[k][2] <= e

\* the sub-fields of a layout, each holding its part of the raw values
SubFields(layout, raw) ==
    [k \in 1..Len(layout) |->
        Field(FieldName(AccelZ, layout[k][1], layout[k][2]),
              SubSeq(raw, layout[k][1] + 1, layout[k][2]))]

FieldSamples ==
    { SubFields(layout, Raws(kind, LayoutEnd(layout))) :
          layout \in Layouts, kind \in RawKinds }
    \cup { <<>>,
           <<Field(FieldName("heart_rate", 0, 0), <<60>>)>>,
           <<Field(FieldName("accel_x", 0, 0), <<0>>)>>,
           <<Field(FieldName("heart_rate", 0, 0), <<60>>)>>
               \o SubFields(<<<<0, 25>>>>, Raws("real", 25)),
           <<Field(FieldName(AccelZ, 0, 25), Raws("real", 24))>>,
           <<Field(FieldName(AccelZ, 0, 12), Raws("real10", 12)),
             Field(FieldName(AccelZ, 12, 25), Raws("real", 12))>> }

Second == MicrosPerSecond

LonSample == 100
LatSample == -7
SpeedSample == 5

Message(ts, lon, lat, speed, fields) ==
    [ts |-> ts, lon |-> lon, lat |-> lat, speed |-> speed, fields |-> fields]

\* messages with every combination of the fields present or absent
PresenceSamples ==
    { Message(ts, lon, lat, speed, fields) :
        ts \in { None, Some([datetime |-> FALSE, v |-> 0]),
                 Some([datetime |-> TRUE, v |-> 0]) },
        lon \in {None, Some(LonSample)},
        lat \in {None, Some(LatSample)},
        speed \in {None, Some(SpeedSample)},
        fields \in { <<>>,
                     <<Field(FieldName("accel_x", 0, 0), <<0>>)>>,
                     SubFields(<<<<0, 25>>>>, Raws("real", 25)),
                     SubFields(<<<<0, 12>>, <<13, 25>>>>, Raws("hole", 25)) } }

\* messages with all of timestamp, longitude, latitude and speed
CompleteSamples ==
    { Message(Some([datetime |-> TRUE, v |-> 0]), Some(LonSample),
              Some(LatSample), Some(SpeedSample), fields) :
        fields \in FieldSamples }

\* messages that are extracted, at different times
ExtractedSamples ==
    { Message(Some([datetime |-> TRUE, v |-> n * Second]), Some(LonSample),
              Some(LatSample), Some(SpeedSample),
              SubFields(layout, Raws(kind, LayoutEnd(layout)))) :
        n \in 0..2,
        layout \in {<<<<0, 25>>>>, <<<<13, 25>>, <<0, 13>>>>},
        kind \in {"real", "inf"} }

MessageSamples == PresenceSamples \cup CompleteSamples \cup ExtractedSamples

-----------------------------------------------------------------------------
(* Parsing a FIT file: FitFileParser.parse (data) and Track.from_path      *)
(* (analyze)                                                               *)

NoException == [type |-> "", detail |-> ""]

Init ==
    /\ impl \in {"data", "analyze"}
    /\ status = "parsing"
    /\ exception = NoException
    /\ message = None
    /\ messages = <<>>
    /\ positions = <<>>
    /\ log = <<>>
    /\ call = None
    /\ result = None
    /\ slicer = None

\* one iteration of the loop over fit_file.messages
ParseMessage ==
    /\ status = "parsing"
    /\ Len(messages) < MaxMessages
    /\ \E m \in MessageSamples :
        LET r == extract_position_data(m)
        IN /\ message' = Some(m)
           /\ messages' = Append(messages, field_value_timestamp(m))
           /\ IF r.kind = "ok"
              THEN /\ positions' = positions \o message_positions(m, r.accels)
                   /\ UNCHANGED <<status, exception>>
              ELSE IF r.kind = "IncompletePositionData"
              THEN UNCHANGED <<positions, status, exception>>
              ELSE /\ status' = "raised"
                   /\ exception' = [type |-> r.kind, detail |-> r.detail]
                   /\ UNCHANGED positions
    /\ UNCHANGED <<impl, log, call, result, slicer>>

\* the end of the loop: the continuity check, then return Track(positions)
ReturnTrack ==
    /\ status = "parsing"
    /\ LET c == check_position_continuity(messages, positions)
       IN /\ log' = log \o c.log
          /\ IF c.raised = ""
             THEN status' = "returned" /\ UNCHANGED exception
             ELSE /\ status' = "raised"
                  /\ exception' = [type |-> c.raised, detail |-> ""]
    /\ message' = None
    /\ messages' = <<>>
    /\ UNCHANGED <<impl, positions, call, result, slicer>>

Next == ParseMessage \/ ReturnTrack

Spec == Init /\ [][Next]_vars

-----------------------------------------------------------------------------
(* What one raw value of a message becomes: _parse_raw_accel, then         *)
(* _adjusted_accel, for either implementation.                             *)

RawAccelSamples ==
    {RawMissing, RawBelowRange, RawBelowRange + 1, 0, RawAboveRange - 1,
     RawAboveRange} \cup ((-1030)..(-970))

InitAccel ==
    /\ impl \in {"data", "analyze"}
    /\ status = "parsing"
    /\ exception = NoException
    /\ message = None
    /\ messages = <<>>
    /\ positions = <<>>
    /\ log = <<>>
    /\ call = None
    /\ result = None
    /\ slicer = None

\* self._adjusted_accel(accel) for the accel of a raw value that is not None
AdjustAccel ==
    /\ IsNone(call)
    /\ \E raw_accel \in RawAccelSamples :
          /\ IsSome(parse_raw_accel(raw_accel))
          /\ call' = Some([n |-> 1, op |-> "_adjusted_accel",
                           raw_accel |-> raw_accel])
          /\ result' = Some(adjusted_accel(Value(parse_raw_accel(raw_accel))))
    /\ UNCHANGED <<impl, status, exception, message, messages, positions, log,
                   slicer>>

NextAccel == AdjustAccel

SpecAccel == InitAccel /\ [][NextAccel]_vars

-----------------------------------------------------------------------------
(* Attenuator (analyze.py).  An attenuator object is                       *)
(* [id, exponent, speed_cap, attenuation_at_max_speed]: id tells objects   *)
(* apart, speed_cap is in km/h, attenuation_at_max_speed in hundredths.    *)

Attenuator(id, exponent, speed_cap, percent) ==
    [id |-> id, exponent |-> exponent, speed_cap |-> speed_cap,
     attenuation_at_max_speed |-> percent]

\* Attenuator._exponents
method_of(exponent) ==
    CASE exponent = 1 -> "linear"
      [] exponent = 2 -> "quadratic"
      [] exponent = 3 -> "cubic"

\* Attenuator.spec: f'{method},{speed_cap},{attenuation_at_max_speed}'
spec_of(a) == <<method_of(a.exponent), a.speed_cap, a.attenuation_at_max_speed>>

\* objects compared by identity, as without __eq__
attenuator_is(a, b) == a.id = b.id

\* Attenuator.__eq__
attenuator_eq(a, b) == spec_of(a) = spec_of(b)

\* capped_fraction: min(1, value / reference), for a reference other than 0
capped_fraction(value, reference) ==
    LET q == RealMul(value, Real(1, reference))
    IN IF RealLess(Real(1, 1), q) THEN Real(1, 1) ELSE q

\* Attenuator.attenuate, for a speed cap other than 0
attenuate(a, accel, speed_kph) ==
    LET fraction_of_max_speed == capped_fraction(speed_kph, a.speed_cap)
        attenuation == RealMul(RealPow(fraction_of_max_speed, a.exponent),
                               Real(a.attenuation_at_max_speed, 100))
        factor == RealSub(Real(1, 1), attenuation)
    IN IF accel.inf = 2 THEN RealNaN
       ELSE IF accel.inf = 0 THEN RealMul(factor, accel)
       ELSE IF factor.num = 0 THEN RealNaN
       ELSE IF factor.num > 0 THEN accel ELSE RealInf(0 - accel.inf)

\* Position.speed_kph: mps * 3.6
speed_kph_of(p) == Real(p.speed * 18, 5)

-----------------------------------------------------------------------------
(* Track: the rolling average of the absolute accelerations.               *)
(* analysis_data, a dict, is the set of its items [key, value]; keys       *)
(* compare as Python tuples do, attenuators through __eq__.                *)

RollingKey(window_duration_seconds, attenuator) ==
    [name |-> "rolling_average_absolute_accels",
     window |-> window_duration_seconds, attenuator |-> attenuator]

\* k1 == k2 for two keys
key_eq(k1, k2) ==
    /\ k1.name = k2.name
    /\ k1.window = k2.window
    /\ IF IsNone(k1.attenuator) \/ IsNone(k2.attenuator)
       THEN k1.attenuator = k2.attenuator
       ELSE attenuator_eq(Value(k1.attenuator), Value(k2.attenuator))

\* key in analysis_data
key_in(key, analysis_data) == \E item \in analysis_data : key_eq(item.key, key)

\* analysis_data[key], for a key that is in it
dict_get(analysis_data, key) ==
    (CHOOSE item \in analysis_data : key_eq(item.key, key)).value

\* analysis_data[key] = value
dict_set(analysis_data, key, value) ==
    IF key_in(key, analysis_data)
    THEN { IF key_eq(item.key, key) THEN [item EXCEPT !.value = value]
           ELSE item : item \in analysis_data }
    ELSE analysis_data \cup {[key |-> key, value |-> value]}

\* an eviction that also drops the positions at min_ts
RECURSIVE evict_inclusive(_, _, _)
evict_inclusive(ps, window, min_ts) ==
    IF window = <<>> THEN None
    ELSE IF ps[Head(window)].ts <= min_ts
    THEN evict_inclusive(ps, Tail(window), min_ts)
    ELSE Some(window)

\* The deque window holds the indices of its positions in the track.
\* while window[0].ts < min_ts: window.popleft(); None when window[0] raises
RECURSIVE evict(_, _, _)
evict(ps, window, min_ts) ==
    IF window = <<>> THEN None
    ELSE IF ps[Head(window)].ts < min_ts THEN evict(ps, Tail(window), min_ts)
    ELSE Some(window)

\* sum(abs(p.accel) for p in window): total is the sum of the entries before
\* the k-th; a sum that is infinite stays so
RECURSIVE sum_abs_accel(_, _, _, _)
sum_abs_accel(ps, window, k, total) ==
    IF isinf(total) \/ k > Len(window) THEN total
    ELSE sum_abs_accel(ps, window, k + 1,
             LET a == FloatAbs(ps[window[k]].accel)
             IN IF isinf(a) THEN PosInf ELSE Fin(total.v + a.v))

\* sum(...) / len(window)
mean_abs_accel(ps, window) ==
    LET total == sum_abs_accel(ps, window, 1, Fin(0))
    IN IF isinf(total) THEN RealInf(1) ELSE Real(total.v, Len(window))

\* a conversion of seconds to a duration that cuts the fraction of a
\* microsecond off, towards minus infinity
timedelta_seconds_floor(seconds) ==
    (seconds.num * MicrosPerSecond) \div seconds.den

\* datetime.timedelta(seconds=window_duration_seconds), and
\* pendulum.duration(seconds=...): the duration in whole microseconds, the
\* seconds rounded to the nearest microsecond and a half to the even one
timedelta_seconds(seconds) ==
    LET scaled == seconds.num * MicrosPerSecond
        q == scaled \div seconds.den
        r == scaled - q * seconds.den
    IN IF 2 * r < seconds.den THEN q
       ELSE IF 2 * r > seconds.den THEN q + 1
       ELSE IF q % 2 = 0 THEN q ELSE q + 1

\* The state of the loop of ensure_rolling_average_absolute_accels:
\* [raised, window, values], values[i] being what position i got stored.
\* One iteration of the loop, for position i:
rolling_iteration(ps, i, loop, key) ==
    LET position == ps[i]
        min_ts == position.ts - timedelta_seconds(key.window)
        kept == evict(ps, Append(loop.window, i), min_ts)
    IN IF IsNone(kept)
       THEN [loop EXCEPT !.raised = "IndexError"]
       ELSE IF IsSome(key.attenuator) /\ Value(key.attenuator).speed_cap = 0
       THEN [loop EXCEPT !.raised = "ZeroDivisionError"]
       ELSE LET mean == mean_abs_accel(ps, Value(kept))
                absolute_accel ==
                    IF IsSome(key.attenuator)
                    THEN attenuate(Value(key.attenuator), mean,
                                   speed_kph_of(position))
                    ELSE mean
            IN [raised |-> "", window |-> Value(kept),
                values |-> Append(loop.values, absolute_accel)]

\* the loop from position i on
RECURSIVE rolling_loop(_, _, _, _)
rolling_loop(ps, i, loop, key) ==
    IF i > Len(ps) \/ loop.raised # "" THEN loop
    ELSE rolling_loop(ps, i + 1, rolling_iteration(ps, i, loop, key), key)

\* a store that gives each position reached a new dict holding only the key
with_stored_alone(ps, key, values) ==
    [i \in 1..Len(ps) |->
        IF i <= Len(values)
        THEN [ps[i] EXCEPT !.analysis_data = {[key |-> key,
                                               value |-> values[i]]}]
        ELSE ps[i]]

\* position.analysis_data[key] = absolute_accel, for the positions reached
with_stored(ps, key, values) ==
    [i \in 1..Len(ps) |->
        IF i <= Len(values)
        THEN [ps[i] EXCEPT !.analysis_data = dict_set(@, key, values[i])]
        ELSE ps[i]]

\* ensure_rolling_average_absolute_accels: [computed, raised, positions]
ensure_rolling_average_absolute_accels(ps, window_duration_seconds, attenuator) ==
    LET key == RollingKey(window_duration_seconds, attenuator)
    IN IF ps = <<>> \/ key_in(key, ps[1].analysis_data)
       THEN [computed |-> FALSE, raised |-> "", positions |-> ps]
       ELSE LET r == rolling_loop(ps, 1,
                         [raised |-> "", window |-> <<>>, values |-> <<>>],
                         key)
            IN [computed |-> TRUE, raised |-> r.raised,
                positions |-> with_stored(ps, key, r.values)]

\* [p.analysis_data[key] for p in self.positions]: [raised, values]
stored_values(ps, key) ==
    IF \E i \in 1..Len(ps) : ~key_in(key, ps[i].analysis_data)
    THEN [raised |-> "KeyError", values |-> <<>>]
    ELSE [raised |-> "",
          values |-> [i \in 1..Len(ps) |-> dict_get(ps[i].analysis_data, key)]]

-----------------------------------------------------------------------------
(* Track: time_slices, a generator.  The generator object is               *)
(* [duration, next, current_slice, yielded, done]: next is the index of    *)
(* the position the iterator hands out next, yielded the slices yielded    *)
(* so far.                                                                 *)

\* a slice closed only once its span exceeds the duration
slice_is_full_strict(current_slice, duration_seconds) ==
    /\ current_slice # <<>>
    /\ current_slice[Len(current_slice)].ts - current_slice[1].ts
           > duration_seconds * MicrosPerSecond

\* the try block at the head of the loop: does the current slice get yielded?
slice_is_full(current_slice, duration_seconds) ==
    /\ current_slice # <<>>
    /\ current_slice[Len(current_slice)].ts - current_slice[1].ts
           >= duration_seconds * MicrosPerSecond

\* an iteration that does not yield the remainder at the end of the track
time_slices_iteration_no_flush(g, ps) ==
    LET full == g.current_slice # <<>>
                /\ g.current_slice[Len(g.current_slice)].ts
                       - g.current_slice[1].ts
                       >= g.duration * MicrosPerSecond
        yielded == IF full THEN Append(g.yielded, g.current_slice)
                   ELSE g.yielded
        current_slice == IF full THEN <<>> ELSE g.current_slice
    IN IF g.next <= Len(ps)
       THEN [g EXCEPT !.yielded = yielded,
                      !.current_slice = Append(current_slice, ps[g.next]),
                      !.next = g.next + 1]
       ELSE [g EXCEPT !.yielded = yielded,
                      !.current_slice = current_slice,
                      !.done = TRUE]

\* one iteration of the loop of time_slices
time_slices_iteration(g, ps) ==
    LET full == slice_is_full(g.current_slice, g.duration)
        yielded == IF full THEN Append(g.yielded, g.current_slice)
                   ELSE g.yielded
        current_slice == IF full THEN <<>> ELSE g.current_slice
    IN IF g.next <= Len(ps)
       THEN [g EXCEPT !.yielded = yielded,
                      !.current_slice = Append(current_slice, ps[g.next]),
                      !.next = g.next + 1]
       ELSE [g EXCEPT !.yielded = IF current_slice # <<>>
                                  THEN Append(yielded, current_slice)
                                  ELSE yielded,
                      !.current_slice = current_slice,
                      !.done = TRUE]

-----------------------------------------------------------------------------
(* The tracks the analysis runs on: Track(positions), for lists of a few   *)
(* positions.  The time stamps are whole seconds and may repeat or go      *)
(* backwards, as those of positions extracted from messages whose time     *)
(* stamps do; the i-th position of every list has the i-th acceleration    *)
(* and speed below.                                                        *)

TimestampSamples == {0, Second, 2 * Second}

AccelSamples == <<NegInf, Fin(10), Fin(-5), Fin(70), PosInf, Fin(-30)>>

SpeedSamples == <<5, 0, 10, 15, 5, 10>>

TrackSamples ==
    UNION { { [i \in 1..n |->
                 Position(tss[i], semicircles_to_deg(LonSample),
                          semicircles_to_deg(LatSample),
                          SpeedSamples[((i - 1) % 6) + 1],
                          AccelSamples[((i - 1) % 6) + 1])] :
              tss \in [1..n -> TimestampSamples] } : n \in 0..MaxPositions }

InitTrack ==
    /\ impl = "data"
    /\ status = "returned"
    /\ exception = NoException
    /\ message = None
    /\ messages = <<>>
    /\ positions \in TrackSamples
    /\ log = <<>>
    /\ call = None
    /\ result = None
    /\ slicer = None

\* window durations in seconds, as exact rationals
WindowSamples == {Real(0, 1), Real(1, 1)}

AttenuatorSamples ==
    { Attenuator(1, 1, 40, 50),
      Attenuator(2, 1, 40, 50),
      Attenuator(3, 2, 40, 50) }

Calls == IF IsNone(call) THEN 0 ELSE Value(call).n

Called(op, window_duration_seconds, attenuator, computed, raised) ==
    Some([n |-> Calls + 1, op |-> op, window |-> window_duration_seconds,
          attenuator |-> attenuator, computed |-> computed, raised |-> raised])

\* The slices of a time_slices generator hold the Position objects of the
\* track, not copies: the j-th position handed out so far is positions[j],
\* with whatever analysis_data it has by now.
RECURSIVE slices_of(_, _, _)
slices_of(slices, ps, offset) ==
    IF slices = <<>> THEN <<>>
    ELSE <<[j \in 1..Len(Head(slices)) |-> ps[offset + j]]>>
         \o slices_of(Tail(slices), ps, offset + Len(Head(slices)))

slicer_of(s, ps) ==
    IF IsNone(s) THEN s
    ELSE LET g == Value(s)
             yielded == slices_of(g.yielded, ps, 0)
             \* the last slice is yielded without a new list being started
             current_slice ==
                 IF g.done /\ g.current_slice # <<>>
                 THEN yielded[Len(yielded)]
                 ELSE [j \in 1..Len(g.current_slice) |->
                          ps[g.next - 1 - Len(g.current_slice) + j]]
         IN Some([g EXCEPT !.yielded = yielded,
                           !.current_slice = current_slice])

\* track.ensure_rolling_average_absolute_accels(window_duration_seconds,
\* attenuator), the arguments from the given sets
EnsureRollingAverageOf(windows, attenuators) ==
    /\ status = "returned"
    /\ Calls < MaxCalls
    /\ \E w \in windows,
          a \in {None} \cup {Some(x) : x \in attenuators} :
        \E r \in {ensure_rolling_average_absolute_accels(positions, w, a)} :
           /\ positions' = r.positions
           /\ slicer' = slicer_of(slicer, r.positions)
           /\ call' = Called("ensure_rolling_average_absolute_accels", w, a,
                             r.computed, r.raised)
           /\ result' = None
    /\ UNCHANGED <<impl, status, exception, message, messages, log>>

\* track.rolling_average_absolute_accels(window_duration_seconds, attenuator),
\* the arguments from the given sets
RollingAverageOf(windows, attenuators) ==
    /\ status = "returned"
    /\ Calls < MaxCalls
    /\ \E w \in windows,
          a \in {None} \cup {Some(x) : x \in attenuators} :
        \E r \in {ensure_rolling_average_absolute_accels(positions, w, a)} :
        \E v \in {stored_values(r.positions, RollingKey(w, a))} :
           /\ positions' = r.positions
           /\ slicer' = slicer_of(slicer, r.positions)
           /\ IF r.raised # ""
              THEN /\ call' = Called("rolling_average_absolute_accels", w, a,
                                     r.computed, r.raised)
                   /\ result' = None
              ELSE /\ call' = Called("rolling_average_absolute_accels", w, a,
                                     r.computed, v.raised)
                   /\ result' = IF v.raised = "" THEN Some(v.values) ELSE None
    /\ UNCHANGED <<impl, status, exception, message, messages, log>>

EnsureRollingAverage ==
    EnsureRollingAverageOf(WindowSamples, AttenuatorSamples)

RollingAverage == RollingAverageOf(WindowSamples, AttenuatorSamples)

NextRolling == EnsureRollingAverage \/ RollingAverage

SpecRolling == InitTrack /\ [][NextRolling]_vars

\* The rolling average for window durations of either sign: -1 s, -0.6 and
\* -0.5 microseconds, 0 and 1 s, without an attenuator or with one.

SignedWindowSamples ==
    { Real(-1, 1), Real(-3, 5000000), Real(-1, 2000000), Real(0, 1),
      Real(1, 1) }

WindowAttenuatorSamples == { Attenuator(1, 1, 40, 50) }

EnsureRollingAverageOfAnyWindow ==
    EnsureRollingAverageOf(SignedWindowSamples, WindowAttenuatorSamples)

RollingAverageOfAnyWindow ==
    RollingAverageOf(SignedWindowSamples, WindowAttenuatorSamples)

NextWindow == EnsureRollingAverageOfAnyWindow \/ RollingAverageOfAnyWindow

SpecWindow == InitTrack /\ [][NextWindow]_vars

DurationSamples == {-1, 0, 1, 2}

\* track.time_slices(duration_seconds): the generator is created
TimeSlices ==
    /\ status = "returned"
    /\ IsNone(slicer)
    /\ \E d \in DurationSamples :
          slicer' = Some([duration |-> d, next |-> 1, current_slice |-> <<>>,
                          yielded |-> <<>>, done |-> FALSE])
    /\ UNCHANGED <<impl, status, exception, message, messages, positions, log,
                   call, result>>

\* the generator runs one iteration of its loop
TimeSlicesIteration ==
    /\ IsSome(slicer)
    /\ ~Value(slicer).done
    /\ slicer' = Some(time_slices_iteration(Value(slicer), positions))
    /\ UNCHANGED <<impl, status, exception, message, messages, positions, log,
                   call, result>>

NextSlices == TimeSlices \/ TimeSlicesIteration

SpecSlices == InitTrack /\ [][NextSlices]_vars

-----------------------------------------------------------------------------
(* Attenuator: construction from a specification string and attenuate.     *)
(* The string 'method,speed_cap,attenuation' is [method, speed_cap,        *)
(* attenuation], the two numbers being optional: None stands for a text    *)
(* float() does not accept.  The attenuation is in hundredths.             *)

\* next(e for m, e in self._exponents if m == args[0]); None when there is
\* no such method (StopIteration)
exponent_of(method) ==
    CASE method = "linear" -> Some(1)
      [] method = "quadratic" -> Some(2)
      [] method = "cubic" -> Some(3)
      [] OTHER -> None

\* Attenuator.__init__: [raised, attenuator]
attenuator_init(id, args) ==
    IF \/ IsNone(exponent_of(args.method))
       \/ IsNone(args.speed_cap)
       \/ IsNone(args.attenuation)
    THEN [raised |-> "ValueError", attenuator |-> None]
    ELSE IF ~(0 <= Value(args.attenuation) /\ Value(args.attenuation) <= 100)
    THEN [raised |-> "ValueError", attenuator |-> None]
    ELSE [raised |-> "",
          attenuator |-> Some(Attenuator(id, Value(exponent_of(args.method)),
                                         Value(args.speed_cap),
                                         Value(args.attenuation)))]

\* Attenuator.attenuate: [raised, value]; value / reference raises for a
\* speed cap of 0
attenuate_call(a, accel, speed_kph) ==
    IF a.speed_cap = 0
    THEN [raised |-> "ZeroDivisionError", value |-> None]
    ELSE [raised |-> "", value |-> Some(attenuate(a, accel, speed_kph))]

SpecificationSamples ==
    [method : {"linear", "quadratic", "cubic", "quartic"},
     speed_cap : {None, Some(-40), Some(0), Some(40)},
     attenuation : {None, Some(-50), Some(0), Some(50), Some(100), Some(150)}]

AccelArguments == {Real(0, 1), Real(30, 1), Real(-15, 2), RealInf(1)}

SpeedArguments == {Real(-40, 1), Real(0, 1), Real(20, 1), Real(40, 1),
                   Real(60, 1)}

InitAttenuator ==
    /\ impl = "analyze"
    /\ status = "returned"
    /\ exception = NoException
    /\ message = None
    /\ messages = <<>>
    /\ positions = <<>>
    /\ log = <<>>
    /\ call = None
    /\ result = None
    /\ slicer = None

\* Attenuator(spec)
ConstructAttenuator ==
    /\ IsNone(call)
    /\ \E args \in SpecificationSamples :
       \E r \in {attenuator_init(1, args)} :
          /\ call' = Some([n |-> 1, op |-> "Attenuator", spec |-> args,
                           raised |-> r.raised])
          /\ result' = r.attenuator
    /\ UNCHANGED <<impl, status, exception, message, messages, positions, log,
                   slicer>>

\* attenuator.attenuate(accel, speed_kph) on the attenuator constructed
Attenuate ==
    /\ IsSome(call)
    /\ Value(call).op = "Attenuator"
    /\ IsSome(result)
    /\ \E accel \in AccelArguments, speed_kph \in SpeedArguments :
       \E r \in {attenuate_call(Value(result), accel, speed_kph)} :
          /\ call' = Some([n |-> 2, op |-> "attenuate",
                           attenuator |-> Value(result), accel |-> accel,
                           speed_kph |-> speed_kph, raised |-> r.raised])
          /\ result' = r.value
    /\ UNCHANGED <<impl, status, exception, message, messages, positions, log,
                   slicer>>

NextAttenuator == ConstructAttenuator \/ Attenuate

SpecAttenuator == InitAttenuator /\ [][NextAttenuator]_vars

-----------------------------------------------------------------------------
(* The continuity check on its own: _check_position_continuity(messages,   *)
(* positions) for lists of a few positions and of a few message time       *)
(* stamps, in any order.  It is the last step of parse, so the check is    *)
(* the step ReturnTrack of a parser that holds these lists.                *)

ContinuityTimestampSamples == {0, 2 * Second, 3 * Second, 4 * Second}

MessageTimestampSamples == {None, Some(0), Some(2 * Second), Some(4 * Second)}

ContinuityPositionSamples ==
    UNION { { [i \in 1..n |->
                 Position(tss[i], semicircles_to_deg(LonSample),
                          semicircles_to_deg(LatSample),
                          SpeedSamples[((i - 1) % 6) + 1],
                          AccelSamples[((i - 1) % 6) + 1])] :
              tss \in [1..n -> ContinuityTimestampSamples] } :
            n \in 0..MaxPositions }

ContinuityMessageSamples ==
    UNION { [1..n -> MessageTimestampSamples] : n \in 0..MaxMessages }

InitContinuity ==
    /\ impl \in {"data", "analyze"}
    /\ status = "parsing"
    /\ exception = NoException
    /\ message = None
    /\ messages \in ContinuityMessageSamples
    /\ positions \in ContinuityPositionSamples
    /\ log = <<>>
    /\ call = None
    /\ result = None
    /\ slicer = None

NextContinuity == ReturnTrack

SpecContinuity == InitContinuity /\ [][NextContinuity]_vars

-----------------------------------------------------------------------------
(* The properties of a Track that only read it, and every operation of a   *)
(* Track together.                                                         *)

\* a float of the bounds: float('inf'), float('-inf') or a longitude or
\* latitude in degrees
deg_float(deg) == [inf |-> 0, num |-> deg.num, den |-> deg.den]

\* x < y for two such floats
deg_less(x, y) ==
    IF x.inf # 0 \/ y.inf # 0 THEN x.inf < y.inf
    ELSE IF x.den = y.den THEN x.num < y.num
    ELSE x.num * y.den < y.num * x.den

\* min(x, y) and max(x, y) of Python: the first argument unless the second
\* is smaller (greater)
deg_min(x, y) == IF deg_less(y, x) THEN y ELSE x
deg_max(x, y) == IF deg_less(x, y) THEN y ELSE x

\* the loop of Track.bounds from position i on
RECURSIVE bounds_from(_, _, _)
bounds_from(ps, i, b) ==
    IF i > Len(ps) THEN b
    ELSE bounds_from(ps, i + 1,
             [min_lon |-> deg_min(b.min_lon, deg_float(ps[i].lon)),
              max_lon |-> deg_max(b.max_lon, deg_float(ps[i].lon)),
              min_lat |-> deg_min(b.min_lat, deg_float(ps[i].lat)),
              max_lat |-> deg_max(b.max_lat, deg_float(ps[i].lat))])

\* Track.bounds: (min_lon, min_lat, max_lon, max_lat)
bounds(ps) ==
    LET b == bounds_from(ps, 1,
                 [min_lon |-> RealInf(1), min_lat |-> RealInf(1),
                  max_lon |-> RealInf(-1), max_lat |-> RealInf(-1)])
    IN <<b.min_lon, b.min_lat, b.max_lon, b.max_lat>>

\* Track.tss, Track.accels, Track.speeds_kph
tss(ps) == [i \in 1..Len(ps) |-> ps[i].ts]
accels(ps) == [i \in 1..Len(ps) |-> ps[i].accel]
speeds_kph(ps) == [i \in 1..Len(ps) |-> speed_kph_of(ps[i])]

Read(op, value) ==
    /\ status = "returned"
    /\ Calls < MaxCalls
    /\ call' = Some([n |-> Calls + 1, op |-> op, raised |-> ""])
    /\ result' = Some(value)
    /\ UNCHANGED <<impl, status, exception, message, messages, positions, log,
                   slicer>>

\* track.positions
ReadPositions == Read("positions", positions)

\* track.bounds
ReadBounds == Read("bounds", bounds(positions))

\* track.tss
ReadTss == Read("tss", tss(positions))

\* track.accels
ReadAccels == Read("accels", accels(positions))

\* track.speeds_kph
ReadSpeedsKph == Read("speeds_kph", speeds_kph(positions))

NextRead ==
    ReadPositions \/ ReadBounds \/ ReadTss \/ ReadAccels \/ ReadSpeedsKph

NextTrack == NextRolling \/ NextSlices \/ NextRead

SpecTrack == InitTrack /\ [][NextTrack]_vars

-----------------------------------------------------------------------------
(* SenseboxBikeRawAccelerationParser (data.py): the parser of the JSON     *)
(* files of the sensor box.  A receiveTime is held as the instant its      *)
(* string denotes, in microseconds; longitudes, latitudes and speeds are   *)
(* exact rationals.                                                        *)

MaxBlocks == 2
MaxSamples == 2
MaxFixes == 3

\* one entry of rawAccelerations
RawAcceleration(millisSinceDeviceStartup, z) ==
    [millisSinceDeviceStartup |-> millisSinceDeviceStartup, z |-> z]

\* one entry of rawAccelerationsRecords
RawAccelerationsRecord(receiveTime, rawAccelerations) ==
    [receiveTime |-> receiveTime, rawAccelerations |-> rawAccelerations]

\* one entry of geoLocationDatas
GeoLocationData(receiveTime, lon, lat, speed) ==
    [receiveTime |-> receiveTime, lon |-> lon, lat |-> lat, speed |-> speed]

MicrosPerMilli == 1000

\* _adjusted_accel of this parser: accel * 100 - GRAVITY_MILLIG
sensebox_adjusted_accel(accel) == Fin(accel * 100 - GRAVITY_MILLIG)

\* _parse_accelerations_record
parse_accelerations_record(device_startup_time, record) ==
    [i \in 1..Len(record) |->
        Position(device_startup_time
                   + record[i].millisSinceDeviceStartup * MicrosPerMilli,
                 None, None, None, sensebox_adjusted_accel(record[i].z))]

\* the loop of _parse_accelerations from block b on:
\* [device_startup_time, lags, positions, log]
RECURSIVE parse_accelerations_from(_, _, _)
parse_accelerations_from(recordss, b, st) ==
    IF b > Len(recordss) THEN st
    ELSE LET records == recordss[b]
             receive_time == records.receiveTime
         IN IF records.rawAccelerations = <<>>
            THEN parse_accelerations_from(recordss, b + 1,
                     [st EXCEPT !.log = Append(@,
                          LogRecord("warning",
                              "Empty block of raw accelerations",
                              <<receive_time>>))])
            ELSE LET last_accel ==
                         records.rawAccelerations[Len(records.rawAccelerations)]
                     device_startup_time ==
                         receive_time
                           - last_accel.millisSinceDeviceStartup * MicrosPerMilli
                     first_startup_time ==
                         IF IsSome(st.device_startup_time)
                         THEN Value(st.device_startup_time)
                         ELSE device_startup_time
                 IN parse_accelerations_from(recordss, b + 1,
                        [st EXCEPT
                           !.device_startup_time = Some(first_startup_time),
                           !.lags = Append(@, first_startup_time
                                                - device_startup_time),
                           !.positions = @ \o parse_accelerations_record(
                                                  first_startup_time,
                                                  records.rawAccelerations)])

\* _parse_accelerations
parse_accelerations(recordss) ==
    parse_accelerations_from(recordss, 1,
        [device_startup_time |-> None, lags |-> <<>>, positions |-> <<>>,
         log |-> <<>>])

\* _check_timestamp_order: the exception raised, if any
check_timestamp_order(ps) ==
    IF \E i \in 1..(Len(ps) - 1) : ps[i].ts > ps[i + 1].ts
    THEN "ValueError" ELSE ""

\* _parse_and_check_geolocation_timestamps: the exception raised, if any
parse_and_check_geolocation_timestamps(geodata_records) ==
    IF \E i \in 2..Len(geodata_records) :
           geodata_records[i].receiveTime < geodata_records[i - 1].receiveTime
    THEN "ValueError" ELSE ""

\* _interpolate_geodata: [raised, out_of_bounds, lon, lat, speed]
interpolate_geodata(l, r, ts) ==
    IF ~(l.receiveTime < r.receiveTime)
    THEN [raised |-> "AssertionError", out_of_bounds |-> 0,
          lon |-> None, lat |-> None, speed |-> None]
    ELSE IF ts < l.receiveTime
    THEN [raised |-> "", out_of_bounds |-> 1,
          lon |-> l.lon, lat |-> l.lat, speed |-> l.speed]
    ELSE IF ts > r.receiveTime
    THEN [raised |-> "", out_of_bounds |-> 1,
          lon |-> r.lon, lat |-> r.lat, speed |-> r.speed]
    ELSE LET timespan == r.receiveTime - l.receiveTime
             l_fraction == Real(ts - l.receiveTime, timespan)
             r_fraction == RealSub(Real(1, 1), l_fraction)
             mix(lv, rv) == RealAdd(RealMul(l_fraction, lv),
                                    RealMul(r_fraction, rv))
         IN [raised |-> "", out_of_bounds |-> 0,
             lon |-> mix(l.lon, r.lon),
             lat |-> mix(l.lat, r.lat),
             speed |-> mix(l.speed, r.speed)]

\* while position.ts < l['receiveTime']: l, r = next(geodata_pairs), until
\* the pairs run out; the pair is given by the index of its left record
RECURSIVE advance_pair(_, _, _)
advance_pair(geodata_records, pair, ts) ==
    IF ts < geodata_records[pair].receiveTime
         /\ pair + 1 < Len(geodata_records)
    THEN advance_pair(geodata_records, pair + 1, ts)
    ELSE pair

\* the loop of _add_geolocation_data from position i on:
\* [raised, pair, positions, num_matching_out_of_bounds]
RECURSIVE add_geolocation_data_from(_, _, _)
add_geolocation_data_from(geodata_records, i, st) ==
    IF i > Len(st.positions) \/ st.raised # "" THEN st
    ELSE LET position == st.positions[i]
             pair == advance_pair(geodata_records, st.pair, position.ts)
             interpolated == interpolate_geodata(geodata_records[pair],
                                 geodata_records[pair + 1], position.ts)
         IN add_geolocation_data_from(geodata_records, i + 1,
                IF interpolated.raised # ""
                THEN [st EXCEPT !.raised = interpolated.raised, !.pair = pair]
                ELSE [st EXCEPT
                        !.pair = pair,
                        !.num_matching_out_of_bounds =
                            @ + interpolated.out_of_bounds,
                        !.positions[i] =
                            [position EXCEPT !.lon = interpolated.lon,
                                             !.lat = interpolated.lat,
                                             !.speed = interpolated.speed]])

\* _add_geolocation_data
add_geolocation_data(geodata_records, ps) ==
    LET start == [raised |-> "", pair |-> 1, positions |-> ps,
                  num_matching_out_of_bounds |-> 0]
    IN IF parse_and_check_geolocation_timestamps(geodata_records) # ""
       THEN [start EXCEPT !.raised = "ValueError"]
       ELSE IF Len(geodata_records) < 2
       THEN \* next(geodata_pairs) raises StopIteration
            [start EXCEPT !.raised = "ValueError"]
       ELSE add_geolocation_data_from(geodata_records, 1, start)

\* _report_status: the warnings logged
report_status(lags, num_positions, num_matching_out_of_bounds) ==
    LET num_excessive_lag ==
            Len(SelectSeq(lags, LAMBDA lag : lag > MicrosPerSecond))
    IN (IF num_excessive_lag # 0
        THEN <<LogRecord("warning", "blocks showed an inconsistency",
                         <<num_excessive_lag, Len(lags)>>)>>
        ELSE <<>>)
       \o (IF num_matching_out_of_bounds # 0
           THEN <<LogRecord("warning", "couldn't be interpolated",
                     <<num_matching_out_of_bounds, num_positions,
                       format_percent_2f(Real(num_matching_out_of_bounds,
                                              num_positions))>>)>>
           ELSE <<>>)

\* parse: [raised, positions, log]
sensebox_parse(data_json) ==
    LET accelerations == parse_accelerations(data_json.rawAccelerationsRecords)
        order == check_timestamp_order(accelerations.positions)
        geo == add_geolocation_data(data_json.geoLocationDatas,
                                    accelerations.positions)
    IN IF order # "" \/ geo.raised # ""
       THEN \* except Exception: raise ValueError
            [raised |-> "ValueError", positions |-> <<>>,
             log |-> accelerations.log]
       ELSE [raised |-> "", positions |-> geo.positions,
             log |-> accelerations.log
                       \o report_status(accelerations.lags,
                              Len(accelerations.positions),
                              geo.num_matching_out_of_bounds)]

\* The files the parser is run on: up to MaxBlocks blocks of up to
\* MaxSamples accelerations each, received at 1 s or 3 s, and up to MaxFixes
\* geolocation fixes at 0 s, 1 s or 4 s in any order; the i-th fix of a file
\* has longitude 10 i, latitude -20 i and speed i.

ZSample == 10

MillisSamples == {0, 2000}

BlockReceiveTimeSamples == {Second, 3 * Second}

FixReceiveTimeSamples == {0, Second, 4 * Second}

RawAccelerationsSamples ==
    UNION { { [i \in 1..n |-> RawAcceleration(ms[i], ZSample)] :
              ms \in [1..n -> MillisSamples] } : n \in 0..MaxSamples }

RawAccelerationsRecordSamples ==
    { RawAccelerationsRecord(t, accelerations) :
        t \in BlockReceiveTimeSamples,
        accelerations \in RawAccelerationsSamples }

GeoLocationDatasSamples ==
    UNION { { [i \in 1..n |->
                 GeoLocationData(ts[i], Real(10 * i, 1), Real(-20 * i, 1),
                                 Real(i, 1))] :
              ts \in [1..n -> FixReceiveTimeSamples] } : n \in 0..MaxFixes }

DataJsonSamples ==
    { [rawAccelerationsRecords |-> recordss, geoLocationDatas |-> fixes] :
        recordss \in UNION { [1..n -> RawAccelerationsRecordSamples] :
                             n \in 0..MaxBlocks },
        fixes \in GeoLocationDatasSamples }

\* SenseboxBikeRawAccelerationParser(file_path), for a file that holds
\* data_json
InitSensebox ==
    /\ impl = "data"
    /\ status = "parsing"
    /\ exception = NoException
    /\ message = None
    /\ messages = <<>>
    /\ positions = <<>>
    /\ log = <<>>
    /\ \E data_json \in DataJsonSamples :
          call = Some([n |-> 0,
                       op |-> "SenseboxBikeRawAccelerationParser.parse",
                       data_json |-> data_json])
    /\ result = None
    /\ slicer = None

\* parser.parse()
ParseSensebox ==
    /\ status = "parsing"
    /\ \E r \in {sensebox_parse(Value(call).data_json)} :
          /\ log' = log \o r.log
          /\ positions' = r.positions
          /\ IF r.raised = ""
             THEN status' = "returned" /\ UNCHANGED exception
             ELSE /\ status' = "raised"
                  /\ exception' = [type |-> r.raised,
                                   detail |-> "unable to parse"]
    /\ UNCHANGED <<impl, message, messages, call, result, slicer>>

NextSensebox == ParseSensebox

SpecSensebox == InitSensebox /\ [][NextSensebox]_vars

-----------------------------------------------------------------------------
(* Vocabulary of the properties.  These definitions restate what the       *)
(* properties talk about from the messages themselves; of the operators    *)
(* above they use only the exact arithmetic.                               *)

\* a step that handles one more message of the file
MessageHandled == Len(messages') = Len(messages) + 1

\* the acceleration sub-fields of a message, as a sequence in file order
SubFieldsOf(m) ==
    SelectSeq(m.fields, LAMBDA f : f.name.text \in {AccelZ, "accel_x"})

HasTimestamp(m) == m.ts # <<>> /\ m.ts[1].datetime

NamesWellFormed(m) ==
    \A k \in 1..Len(SubFieldsOf(m)) : SubFieldsOf(m)[k].name.text = AccelZ

\* timestamp, longitude, latitude, speed and at least one sub-field
AllPresent(m) ==
    /\ HasTimestamp(m)
    /\ m.lon # <<>> /\ m.lat # <<>> /\ m.speed # <<>>
    /\ SubFieldsOf(m) # <<>>

\* some or none, but not all, of longitude, latitude, speed, sub-fields
NotAllDataPresent(m) ==
    \/ m.lon = <<>> \/ m.lat = <<>> \/ m.speed = <<>> \/ SubFieldsOf(m) = <<>>

\* the sub-fields in the order of their start index
InIndexOrder(m) ==
    LET fs == SubFieldsOf(m)
        n == Len(fs)
        order == CHOOSE o \in [1..n -> 1..n] :
                    /\ \A a, b \in 1..n : a # b => o[a] # o[b]
                    /\ \A a \in 1..n - 1 :
                          \/ fs[o[a]].name.start < fs[o[a + 1]].name.start
                          \/ /\ fs[o[a]].name.start = fs[o[a + 1]].name.start
                             /\ fs[o[a]].name.end <= fs[o[a + 1]].name.end
    IN [a \in 1..n |-> fs[order[a]]]

\* the first range does not start at 0, or two neighbours do not abut
StructureViolated(m) ==
    LET fs == InIndexOrder(m)
    IN \/ fs[1].name.start # 0
       \/ \E a \in 1..Len(fs) - 1 : fs[a].name.end # fs[a + 1].name.start

CountsMatch(m) ==
    \A k \in 1..Len(SubFieldsOf(m)) :
        Len(SubFieldsOf(m)[k].value)
            = SubFieldsOf(m)[k].name.end - SubFieldsOf(m)[k].name.start

\* the raw values of all sub-fields, in index order
RECURSIVE Flatten(_)
Flatten(fs) == IF fs = <<>> THEN <<>> ELSE Head(fs).value \o Flatten(Tail(fs))

RawInIndexOrder(m) == Flatten(InIndexOrder(m))

\* a real value follows a missing-sentinel
ValueAfterTerminator(m) ==
    LET raw == RawInIndexOrder(m)
    IN \E a, b \in 1..Len(raw) : a < b /\ raw[a] = -32768 /\ raw[b] # -32768

RealValues(m) == SelectSeq(RawInIndexOrder(m), LAMBDA r : r # -32768)

\* a complete message whose sub-fields obey every rule of the format
WellFormed(m) ==
    /\ AllPresent(m)
    /\ NamesWellFormed(m)
    /\ ~StructureViolated(m)
    /\ CountsMatch(m)
    /\ ~ValueAfterTerminator(m)

\* a raw value as a float
Decoded(raw) ==
    IF raw = 32767 THEN [inf |-> 1, v |-> 0]
    ELSE IF raw = -32767 THEN [inf |-> -1, v |-> 0]
    ELSE [inf |-> 0, v |-> raw]

Shifted(x, baseline) ==
    IF x.inf # 0 THEN x ELSE [inf |-> 0, v |-> x.v + baseline]

\* the baseline the running implementation adds
Baseline == IF impl = "data" THEN 981 ELSE 1000

\* what a well-formed message with 25 real values has to append
ExpectedPositions(m) ==
    [k \in 1..25 |->
        [ts |-> m.ts[1].v + (k - 1) * 40000,
         lon |-> [num |-> 45 * m.lon[1], den |-> 536870912],
         lat |-> [num |-> 45 * m.lat[1], den |-> 536870912],
         speed |-> m.speed[1],
         accel |-> Shifted(Decoded(RealValues(m)[k]), Baseline),
         analysis_data |-> {}]]

-----------------------------------------------------------------------------
(* Properties of the extraction *)

\* C1: a message with timestamp, longitude, latitude, speed and well-formed
\* sub-fields holding exactly 25 real values is extracted: 25 positions are
\* appended behind those of the earlier messages, in index order, position i
\* at timestamp + i/25 s with the message's longitude, latitude and speed.
C1_Extracts25Positions ==
    [][ (MessageHandled /\ WellFormed(Value(message'))
            /\ Len(RealValues(Value(message'))) = 25)
        => /\ status' = "parsing"
           /\ positions' = positions \o ExpectedPositions(Value(message')) ]_vars

\* the first message of a file is well-formed, has 25 real values, and
\* FitFileParser (data.py) ends with an AttributeError and no position
C1_Witness ==
    /\ impl = "data"
    /\ status = "raised"
    /\ exception.type = "AttributeError"
    /\ IsSome(message)
    /\ WellFormed(Value(message))
    /\ Len(RealValues(Value(message))) = 25
    /\ Len(messages) = 1
    /\ positions = <<>>

\* C2: in a message with everything present, sub-fields that do not start at
\* 0 or do not abut raise ParseError and no Track is ever returned; sub-fields
\* that do both raise neither of the two structure errors.
C2_StructureErrorIsFatal ==
    /\ [](IsSome(message) =>
            LET m == Value(message)
            IN (AllPresent(m) /\ NamesWellFormed(m))
               => IF StructureViolated(m)
                  THEN status = "raised" /\ exception.type = "ParseError"
                  ELSE exception.detail \notin
                           {"Acceleration fields don't start at 0.",
                            "Acceleration fields aren't consecutive."})
    /\ [][status = "raised" => status' = "raised"]_vars

C2_Witness ==
    /\ IsSome(message)
    /\ AllPresent(Value(message))
    /\ NamesWellFormed(Value(message))
    /\ StructureViolated(Value(message))
    /\ Len(positions) = 25
    /\ status = "raised"

\* C3: in a message with everything present, a real value behind a
\* missing-sentinel (in index order, across sub-fields) raises ParseError; with
\* sub-fields of valid structure and counts it is the error about a value after
\* the first null, and the message is neither extracted nor skipped.
C3_ValueAfterTerminatorIsFatal ==
    IsSome(message) =>
        LET m == Value(message)
        IN (AllPresent(m) /\ NamesWellFormed(m) /\ ValueAfterTerminator(m))
           => /\ status = "raised"
              /\ exception.type = "ParseError"
              /\ (~StructureViolated(m) /\ CountsMatch(m))
                 => exception.detail
                      = "Encountered acceleration value after first null."

C3_Witness ==
    /\ IsSome(message)
    /\ AllPresent(Value(message))
    /\ NamesWellFormed(Value(message))
    /\ ~StructureViolated(Value(message))
    /\ CountsMatch(Value(message))
    /\ Len(SubFieldsOf(Value(message))) = 2
    /\ SubFieldsOf(Value(message))[1].value[13] = -32768
    /\ status = "raised"

\* C4: a message that lacks some or all of longitude, latitude, speed and
\* acceleration sub-fields is skipped: no position, no error, parsing goes on.
C4_IncompleteMessageIsSkipped ==
    [][ (MessageHandled /\ NotAllDataPresent(Value(message')))
        => status' = "parsing" /\ positions' = positions ]_vars

\* a message without longitude, latitude and speed whose only field is named
\* accel_x ends the parse with a ParseError
C4_Witness ==
    /\ IsSome(message)
    /\ Value(message).lon = <<>>
    /\ Value(message).lat = <<>>
    /\ Value(message).speed = <<>>
    /\ Len(Value(message).fields) = 1
    /\ Value(message).fields[1].name.text = "accel_x"
    /\ status = "raised"
    /\ exception.type = "ParseError"

\* C5: a complete, well-formed message with a number of real values other
\* than 25 is dropped without an error; every message contributes 0 or 25
\* positions.
C5_WrongCountIsSkipped ==
    [][ MessageHandled
        => /\ Len(positions') - Len(positions) \in {0, 25}
           /\ (WellFormed(Value(message'))
                  /\ Len(RealValues(Value(message'))) # 25)
              => status' = "parsing" /\ positions' = positions ]_vars

\* a well-formed message with 26 real values, and FitFileParser (data.py)
\* ends with an AttributeError
C5_Witness ==
    /\ impl = "data"
    /\ status = "raised"
    /\ exception.type = "AttributeError"
    /\ IsSome(message)
    /\ WellFormed(Value(message))
    /\ Len(RealValues(Value(message))) = 26

\* C6: every finite raw value r is adjusted to r + 1000 before it becomes the
\* acceleration of a position.
C6_BaselineIs1000 ==
    (IsSome(call) /\ call[1].op = "_adjusted_accel"
        /\ call[1].raw_accel \notin {32767, -32767})
    => result = <<[inf |-> 0, v |-> call[1].raw_accel + 1000]>>

\* FitFileParser._adjusted_accel (data.py) turns the raw value -1000 into -19
C6_Witness ==
    /\ impl = "data"
    /\ IsSome(call)
    /\ call[1].op = "_adjusted_accel"
    /\ call[1].raw_accel = -1000
    /\ result = <<[inf |-> 0, v |-> -19]>>

-----------------------------------------------------------------------------
(* Vocabulary of the properties of the rolling average.                    *)

\* the call the last step made, the list it returned
LastCall == Value(call)
Returned == Value(result)

\* positions are ordered non-decreasing by time stamp
NonDecreasing(ps) == \A i \in 1..Len(ps) - 1 : ps[i].ts <= ps[i + 1].ts

\* the positions q at or before position i in track order with
\* p.ts - window <= q.ts <= p.ts
TrailingWindow(ps, i, w) ==
    { j \in 1..i : /\ (ps[i].ts - ps[j].ts) * w.den <= w.num * 1000000
                   /\ ps[j].ts <= ps[i].ts }

RECURSIVE TotalMagnitude(_, _)
TotalMagnitude(ps, S) ==
    IF S = {} THEN 0
    ELSE LET j == CHOOSE x \in S : TRUE
             a == ps[j].accel.v
         IN (IF a < 0 THEN 0 - a ELSE a) + TotalMagnitude(ps, S \ {j})

\* value is the mean of |accel| over the positions S, S not empty
IsMeanOver(value, ps, S) ==
    IF \E j \in S : ps[j].accel.inf # 0
    THEN value.inf = 1
    ELSE /\ value.inf = 0
         /\ value.num * Cardinality(S) = value.den * TotalMagnitude(ps, S)

\* a call of rolling_average_absolute_accels(w, None) has returned
ReturnedUnattenuated ==
    /\ IsSome(call)
    /\ LastCall.op = "rolling_average_absolute_accels"
    /\ LastCall.attenuator = <<>>
    /\ IsSome(result)

\* what position i holds for window w and no attenuator
Held(p, w) ==
    { item.value : item \in
        { x \in p.analysis_data : x.key.window = w /\ x.key.attenuator = <<>> } }

WindowProperty ==
    /\ Len(Returned) = Len(positions)
    /\ \A i \in 1..Len(positions) :
          /\ Held(positions[i], LastCall.window) = {Returned[i]}
          /\ IsMeanOver(Returned[i], positions,
                        TrailingWindow(positions, i, LastCall.window))

-----------------------------------------------------------------------------
(* Vocabulary of the properties of the memoization.                        *)

\* two keys are equal: the same window, and either no attenuator both times
\* or attenuators with the same three parameters
SameParameters(a, b) ==
    /\ a.exponent = b.exponent
    /\ a.speed_cap = b.speed_cap
    /\ a.attenuation_at_max_speed = b.attenuation_at_max_speed

SameKey(w1, a1, w2, a2) ==
    /\ w1 = w2
    /\ \/ a1 = <<>> /\ a2 = <<>>
       \/ a1 # <<>> /\ a2 # <<>> /\ SameParameters(a1[1], a2[1])

\* the items position p holds under a key equal to (w, a)
ItemsUnder(p, w, a) ==
    { item \in p.analysis_data :
        SameKey(item.key.window, item.key.attenuator, w, a) }

Populated(ps, w, a) == ps # <<>> /\ ItemsUnder(ps[1], w, a) # {}

\* either no position holds the key or every position does
AllOrNothing ==
    \A i, j \in 1..Len(positions) :
        \A item \in positions[i].analysis_data :
            ItemsUnder(positions[j], item.key.window, item.key.attenuator) # {}

\* a step that is a call which returns; its window and attenuator
CallReturns == call' # call /\ call'[1].raised = ""
CalledWindow == call'[1].window
CalledAttenuator == call'[1].attenuator

\* the call of this step returns the list of what the positions hold
ReturnsWhatIsHeld ==
    call'[1].op = "rolling_average_absolute_accels"
    => /\ result' # <<>>
       /\ Len(result'[1]) = Len(positions')
       /\ \A i \in 1..Len(positions') :
             { item.value : item \in ItemsUnder(positions'[i], CalledWindow,
                                                CalledAttenuator) }
                 = {result'[1][i]}

\* a repeated call recomputes nothing
RepeatedCall ==
    (CallReturns /\ Populated(positions, CalledWindow, CalledAttenuator))
    => /\ positions' = positions
       /\ call'[1].computed = FALSE
       /\ ReturnsWhatIsHeld

\* a call with a key that is not held yet stores its values under a key of
\* their own: every position keeps what it held and gets one more item
NewKey ==
    (/\ CallReturns
     /\ positions # <<>>
     /\ ~Populated(positions, CalledWindow, CalledAttenuator))
    => /\ call'[1].computed = TRUE
       /\ Len(positions') = Len(positions)
       /\ \A i \in 1..Len(positions) :
             /\ positions[i].analysis_data \subseteq positions'[i].analysis_data
             /\ positions'[i].analysis_data \ positions[i].analysis_data
                    = ItemsUnder(positions'[i], CalledWindow, CalledAttenuator)
             /\ Cardinality(ItemsUnder(positions'[i], CalledWindow,
                                       CalledAttenuator)) = 1
       /\ ReturnsWhatIsHeld

\* C8: in every state reached by calls of rolling_average_absolute_accels
\* and ensure_rolling_average_absolute_accels, each key is held by no
\* position or by every position; a repeated call with an equal key
\* recomputes nothing and returns the list the first call returned; a call
\* with a different window or different attenuator parameters is stored
\* under a separate key.
C8_MemoizationIsAllOrNothing ==
    /\ []AllOrNothing
    /\ [][RepeatedCall /\ NewKey]_vars

\* a second call with an attenuator that is another object with the same
\* parameters as the first call's, on a track of three positions, after
\* which every position holds exactly the one item of the first call
C8_Witness ==
    /\ IsSome(call)
    /\ LastCall.n = 2
    /\ LastCall.op = "rolling_average_absolute_accels"
    /\ LastCall.attenuator # <<>>
    /\ LastCall.attenuator[1].id = 2
    /\ LastCall.computed = FALSE
    /\ IsSome(result)
    /\ Len(positions) = 3
    /\ \A i \in 1..3 :
          /\ Cardinality(positions[i].analysis_data) = 1
          /\ \E item \in positions[i].analysis_data :
                /\ item.key.attenuator # <<>>
                /\ item.key.attenuator[1].id = 1
                /\ item.value = Returned[i]

-----------------------------------------------------------------------------
(* Vocabulary of the properties of time_slices.                            *)

\* the generator of the track, the slices it yielded so far, its duration
Slices == Value(slicer).yielded
Exhausted == Value(slicer).done
SliceDuration == Value(slicer).duration * 1000000

RECURSIVE Concatenation(_)
Concatenation(ss) ==
    IF ss = <<>> THEN <<>> ELSE Head(ss) \o Concatenation(Tail(ss))

\* last.ts - first.ts of the first n positions of a slice
Span(slice, n) == slice[n].ts - slice[1].ts

\* C9: the slices time_slices(duration) yields, concatenated in order, are
\* the positions of the track; no slice is empty; an empty track yields no
\* slice.
C9_SlicesPartitionTheTrack ==
    IsSome(slicer)
    => /\ \A k \in 1..Len(Slices) : Slices[k] # <<>>
       /\ Exhausted => Concatenation(Slices) = positions
       /\ positions = <<>> => Slices = <<>>
       /\ \E n \in 0..Len(positions) :
             Concatenation(Slices) = SubSeq(positions, 1, n)

\* three positions sliced into a slice of two positions that spans two
\* seconds and the remainder
C9_Witness ==
    /\ IsSome(slicer)
    /\ Exhausted
    /\ Len(positions) = 3
    /\ Value(slicer).duration = 2
    /\ Len(Slices) = 2
    /\ Len(Slices[1]) = 2

-----------------------------------------------------------------------------
(* Vocabulary of the properties of the Attenuator.                         *)

Constructed == IsSome(call) /\ call[1].op = "Attenuator"
Attenuated == IsSome(call) /\ call[1].op = "attenuate"

\* value = (hundredths / 100) * a, as floats multiply: infinity times 0 is
\* NaN
IsScaled(value, a, hundredths) ==
    IF a.inf = 0
    THEN /\ value.inf = 0
         /\ value.num * 100 * a.den = hundredths * a.num * value.den
    ELSE IF hundredths = 0 THEN value.inf = 2
    ELSE value.inf = (IF hundredths > 0 THEN a.inf ELSE 0 - a.inf)

\* speed >= cap, for a speed that is a fraction and a cap that is an integer
AtOrAbove(speed, cap) == speed.num >= cap * speed.den

\* C11: attenuate(a, 0) = a; attenuate(a, speed_cap) = (1 - attenuation) * a;
\* attenuate(a, speed) for a speed above the speed cap is the same as at the
\* speed cap.
C11_AttenuationBoundary ==
    Attenuated =>
        LET c == call[1]
        IN /\ c.speed_kph.num = 0
                => c.raised = "" /\ result = <<c.accel>>
           /\ AtOrAbove(c.speed_kph, c.attenuator.speed_cap)
                => /\ c.raised = ""
                   /\ result # <<>>
                   /\ IsScaled(result[1], c.accel,
                               100 - c.attenuator.attenuation_at_max_speed)

\* Attenuator('linear,0,0.5').attenuate(30, 0) raises ZeroDivisionError
C11_Witness ==
    /\ Attenuated
    /\ call[1].attenuator.exponent = 1
    /\ call[1].attenuator.speed_cap = 0
    /\ call[1].attenuator.attenuation_at_max_speed = 50
    /\ call[1].accel = [inf |-> 0, num |-> 30, den |-> 1]
    /\ call[1].speed_kph.num = 0
    /\ call[1].raised = "ZeroDivisionError"
    /\ result = <<>>

\* a specification string every Attenuator is said to come from
Admissible(spec) ==
    /\ spec.method \in {"linear", "quadratic", "cubic"}
    /\ spec.attenuation # <<>>
    /\ 0 <= spec.attenuation[1] /\ spec.attenuation[1] <= 100
    /\ spec.speed_cap # <<>>
    /\ spec.speed_cap[1] > 0

\* C12: a specification with an unknown method, an attenuation outside
\* [0, 1] or a speed cap <= 0 is rejected with ValueError; every Attenuator
\* has exponent 1, 2 or 3, attenuation in [0, 1] and speed cap > 0; attenuate
\* never divides by zero and never amplifies a non-negative acceleration at
\* a non-negative speed.
C12_AttenuatorIsValidated ==
    /\ Constructed
         => /\ Admissible(call[1].spec) <=> call[1].raised = ""
            /\ ~Admissible(call[1].spec)
                 => call[1].raised = "ValueError" /\ result = <<>>
            /\ result # <<>>
                 => /\ result[1].exponent \in {1, 2, 3}
                    /\ result[1].attenuation_at_max_speed \in 0..100
                    /\ result[1].speed_cap > 0
    /\ Attenuated
         => /\ call[1].raised = ""
            /\ (call[1].accel.inf = 0 /\ call[1].accel.num >= 0
                   /\ call[1].speed_kph.num >= 0)
               => /\ result # <<>>
                  /\ result[1].inf = 0
                  /\ result[1].num * call[1].accel.den
                         <= call[1].accel.num * result[1].den

\* Attenuator('linear,-40,0.5') is constructed and turns 30 at 20 km/h into
\* 37.5
C12_Witness ==
    /\ Attenuated
    /\ call[1].attenuator.exponent = 1
    /\ call[1].attenuator.speed_cap = -40
    /\ call[1].attenuator.attenuation_at_max_speed = 50
    /\ call[1].accel = [inf |-> 0, num |-> 30, den |-> 1]
    /\ call[1].speed_kph = [inf |-> 0, num |-> 20, den |-> 1]
    /\ result = <<[inf |-> 0, num |-> 75, den |-> 2]>>

-----------------------------------------------------------------------------
(* The continuity check.                                                   *)

\* a step that runs the continuity check
Checked == status = "parsing" /\ status' # "parsing"

Logged(text) == { i \in 1..Len(log) : log[i].text = text }

\* the pairs of consecutive positions with a gap, by the index of the first
GapPairs ==
    { i \in 1..(Len(positions) - 1) :
        positions[i].ts + Second < positions[i + 1].ts }

RECURSIVE GapDuration(_)
GapDuration(pairs) ==
    IF pairs = {} THEN 0
    ELSE LET i == CHOOSE j \in pairs : TRUE
         IN (positions[i + 1].ts - positions[i].ts) + GapDuration(pairs \ {i})

\* the first-to-last span of the positions
TotalSpan == positions[Len(positions)].ts - positions[1].ts

\* a number of hundredths of a percent is the fraction, to two decimals
IsPercentageOf(hundredths, duration, span) ==
    LET exact == RealMul(Real(10000, 1), Real(duration, span))
        error == RealSub(Real(hundredths, 1), exact)
    IN /\ ~RealLess(Real(1, 2), error)
       /\ ~RealLess(error, Real(-1, 2))

\* C18: after the check has completed, the discontinuities are reported
\* exactly when some consecutive positions are more than one second apart;
\* the reported number is the number of such pairs, the reported duration
\* the sum of position[i+1].ts - position[i].ts over them, and the reported
\* percentage that sum over (last ts - first ts), to two decimals.
C18_GapAccounting ==
    status = "returned"
      => /\ Cardinality(Logged("There are discontinuities"))
              = IF GapPairs = {} THEN 0 ELSE 1
         /\ \A i \in Logged("There are discontinuities") :
              /\ log[i].values[1] = Cardinality(GapPairs)
              /\ log[i].values[2] = GapDuration(GapPairs)
              /\ IsPercentageOf(log[i].values[3], GapDuration(GapPairs),
                                TotalSpan)

\* positions at 0 s, 2 s, 3 s: one gap of 2 s, 66.67% of the 3 s
C18_Witness ==
    /\ status = "returned"
    /\ Len(positions) = 3
    /\ positions[1].ts = 0
    /\ positions[2].ts = 2 * Second
    /\ positions[3].ts = 3 * Second
    /\ \E i \in Logged("There are discontinuities") :
         log[i].values = <<1, 2 * Second, 6667>>

MessageTimes == SelectSeq(messages, LAMBDA ts : ts # <<>>)

\* the positions start after, or end before, the span of the messages
StartLateOrEndEarly ==
    \/ positions[1].ts > MessageTimes[1][1]
    \/ positions[Len(positions)].ts < MessageTimes[Len(MessageTimes)][1]

\* C20: when parse checks a track of at least two positions, the offset
\* message is logged if and only if the first position is after the first
\* message time stamp of the file or the last position is before the last
\* one; positions that cover the messages' span get no offset message.
C20_OffsetsLoggedWhenNotCovered ==
    [][(Checked /\ status' = "returned" /\ Len(positions) >= 2)
         => (Logged("Messages start earlier and end later")' # {}
               <=> StartLateOrEndEarly)]_vars

\* a file of one complete message at 1 s: the 25 positions extracted from it
\* run from 1 s to 1.96 s, and the offsets 0 and -0.96 s are logged
C20_Witness ==
    /\ status = "returned"
    /\ Len(positions) = 25
    /\ positions[1].ts = Second
    /\ positions[25].ts = Second + 960000
    /\ \E i \in Logged("Messages start earlier and end later") :
         log[i].values = <<0, -960000>>
    /\ Cardinality(Logged("Parsed track spanning")) = 1

-----------------------------------------------------------------------------
(* The operations of a Track.                                              *)

\* what a position is built from
Built(p) == <<p.ts, p.lon, p.lat, p.speed, p.accel>>

\* the step is a call of one of the two rolling-average operations
RollingCall ==
    /\ call' # call
    /\ call'[1].op \in {"rolling_average_absolute_accels",
                        "ensure_rolling_average_absolute_accels"}

\* C17: every operation of a Track leaves the length and the order of the
\* positions and each position's time stamp, longitude, latitude, speed and
\* acceleration as they were; what a position holds under a key stays, with
\* one value per key; and whatever a position holds new is held under the
\* key of the rolling-average call the step is.
C17_PositionsAreFixed ==
    [][/\ Len(positions') = Len(positions)
       /\ \A i \in 1..Len(positions) :
            /\ Built(positions'[i]) = Built(positions[i])
            /\ positions[i].analysis_data \subseteq positions'[i].analysis_data
            /\ \A item \in positions'[i].analysis_data :
                 /\ Cardinality(ItemsUnder(positions'[i], item.key.window,
                                           item.key.attenuator)) = 1
                 /\ item \notin positions[i].analysis_data
                      => /\ RollingCall
                         /\ SameKey(item.key.window, item.key.attenuator,
                                    call'[1].window, call'[1].attenuator)]_vars

\* a track of three positions after two rolling-average calls with different
\* keys and a run of time_slices to its end: every position holds both keys
C17_Witness ==
    /\ Len(positions) = 3
    /\ \A i \in 1..3 : Cardinality(positions[i].analysis_data) = 2
    /\ call # <<>> /\ call[1].n = 2
    /\ slicer # <<>> /\ slicer[1].done
    /\ Len(slicer[1].yielded) = 2

-----------------------------------------------------------------------------
(* The parser of the sensor box's JSON files.                              *)

\* the file parsed, and its geolocation fixes
DataJson == call[1].data_json
Fixes == DataJson.geoLocationDatas

\* parse has returned a Track
SenseboxParsed ==
    /\ call # <<>>
    /\ call[1].op = "SenseboxBikeRawAccelerationParser.parse"
    /\ status = "returned"

\* parse has raised
SenseboxAborted ==
    /\ call # <<>>
    /\ call[1].op = "SenseboxBikeRawAccelerationParser.parse"
    /\ status = "raised"

\* the pairs of consecutive fixes, by the index of the left one, that have
\* time t between them
Brackets(t) ==
    { k \in 1..(Len(Fixes) - 1) :
        Fixes[k].receiveTime <= t /\ t <= Fixes[k + 1].receiveTime }

\* v = lv + (t - lt) / (rt - lt) * (rv - lv), multiplied by rt - lt
IsInterpolated(v, t, lt, lv, rt, rv) ==
    RealMul(v, Real(rt - lt, 1))
      = RealAdd(RealMul(lv, Real(rt - lt, 1)),
                RealMul(Real(t - lt, 1), RealSub(rv, lv)))

\* position p has the values interpolated in time between fixes k and k + 1
InterpolatedIn(p, k) ==
    LET l == Fixes[k]
        r == Fixes[k + 1]
    IN /\ IsInterpolated(p.lon, p.ts, l.receiveTime, l.lon,
                         r.receiveTime, r.lon)
       /\ IsInterpolated(p.lat, p.ts, l.receiveTime, l.lat,
                         r.receiveTime, r.lat)
       /\ IsInterpolated(p.speed, p.ts, l.receiveTime, l.speed,
                         r.receiveTime, r.speed)

\* C14: a position of the Track whose time stamp lies within a pair of
\* consecutive fixes has the longitude, latitude and speed interpolated
\* linearly in time between the two fixes of such a pair; at the left fix's
\* time these are the left fix's values, at the right fix's time the right
\* fix's.
C14_LinearInterpolation ==
    SenseboxParsed
      => \A i \in 1..Len(positions) :
            Brackets(positions[i].ts) # {}
              => \E k \in Brackets(positions[i].ts) :
                    InterpolatedIn(positions[i], k)

\* fixes at 0 s (longitude 10) and 4 s (longitude 20) and one acceleration at
\* 1 s: the position has longitude 17.5, the interpolation being 12.5
C14_Witness ==
    /\ SenseboxParsed
    /\ Len(Fixes) = 2
    /\ Fixes[1].receiveTime = 0
    /\ Fixes[2].receiveTime = 4 * Second
    /\ Len(positions) = 1
    /\ positions[1].ts = Second
    /\ positions[1].lon = [inf |-> 0, num |-> 35, den |-> 2]

\* the time of the first and of the last fix of the file
FirstFixTime == Fixes[1].receiveTime
LastFixTime == Fixes[Len(Fixes)].receiveTime

\* position p has the longitude, latitude and speed of a fix
HasValuesOf(p, fix) ==
    p.lon = fix.lon /\ p.lat = fix.lat /\ p.speed = fix.speed

\* v lies between a and b, in either order
IsBetween(v, a, b) ==
    \/ ~RealLess(v, a) /\ ~RealLess(b, v)
    \/ ~RealLess(v, b) /\ ~RealLess(a, v)

\* position p has values between those of fixes k and k + 1
MatchedTo(p, k) ==
    /\ IsBetween(p.lon, Fixes[k].lon, Fixes[k + 1].lon)
    /\ IsBetween(p.lat, Fixes[k].lat, Fixes[k + 1].lat)
    /\ IsBetween(p.speed, Fixes[k].speed, Fixes[k + 1].speed)

\* the positions outside the range of the fixes
OutOfRange ==
    { i \in 1..Len(positions) :
        positions[i].ts < FirstFixTime \/ positions[i].ts > LastFixTime }

\* the clamped count that parse reports: that of its warning, or none
ReportedClamped ==
    IF Logged("couldn't be interpolated") = {} THEN 0
    ELSE log[CHOOSE i \in Logged("couldn't be interpolated") : TRUE].values[1]

\* C15: in the Track parse returns, a position with a pair of consecutive
\* fixes around its time stamp has values between those of the fixes of such
\* a pair; a position before the first fix has the first fix's longitude,
\* latitude and speed, one after the last fix the last fix's; and the clamped
\* count reported is the number of positions outside [first fix time, last
\* fix time].
C15_BracketSelectionAndClamping ==
    SenseboxParsed
      => /\ \A i \in 1..Len(positions) :
              /\ Brackets(positions[i].ts) # {}
                   => \E k \in Brackets(positions[i].ts) :
                         MatchedTo(positions[i], k)
              /\ positions[i].ts < FirstFixTime
                   => HasValuesOf(positions[i], Fixes[1])
              /\ positions[i].ts > LastFixTime
                   => HasValuesOf(positions[i], Fixes[Len(Fixes)])
         /\ ReportedClamped = Cardinality(OutOfRange)

\* fixes at 0 s, 1 s and 4 s and accelerations at 1 s and 3 s: the position
\* at 3 s, between the second and the third fix, has the second fix's values
\* and is reported as clamped
C15_Witness ==
    /\ SenseboxParsed
    /\ Len(Fixes) = 3
    /\ Fixes[1].receiveTime = 0
    /\ Fixes[2].receiveTime = Second
    /\ Fixes[3].receiveTime = 4 * Second
    /\ Len(positions) = 2
    /\ positions[1].ts = Second
    /\ positions[2].ts = 3 * Second
    /\ HasValuesOf(positions[2], Fixes[2])
    /\ OutOfRange = {}
    /\ ReportedClamped = 1

\* the acceleration entries of the file, block after block
RECURSIVE AccelerationEntries(_)
AccelerationEntries(recordss) ==
    IF recordss = <<>> THEN <<>>
    ELSE Head(recordss).rawAccelerations \o AccelerationEntries(Tail(recordss))

\* the time stamps of consecutive acceleration entries decrease somewhere:
\* every entry's is the same device startup time plus its milliseconds
AccelerationTimesDecrease ==
    LET entries == AccelerationEntries(DataJson.rawAccelerationsRecords)
    IN \E i \in 1..(Len(entries) - 1) :
          entries[i].millisSinceDeviceStartup
            > entries[i + 1].millisSinceDeviceStartup

\* the time stamps of consecutive fixes decrease somewhere
FixTimesDecrease ==
    \E k \in 1..(Len(Fixes) - 1) :
        Fixes[k].receiveTime > Fixes[k + 1].receiveTime

\* C16: parse of a file whose acceleration time stamps or fix time stamps
\* decrease between two consecutive entries raises and returns no Track;
\* parse of a file with at least two fixes and neither kind of time stamps
\* decreasing, equal consecutive ones included, returns a Track.
C16_OrderingErrors ==
    /\ (SenseboxParsed \/ SenseboxAborted)
         => ((AccelerationTimesDecrease \/ FixTimesDecrease)
               => /\ SenseboxAborted
                  /\ exception.type = "ValueError"
                  /\ positions = <<>>)
    /\ (SenseboxParsed \/ SenseboxAborted)
         => ((/\ Len(Fixes) >= 2
              /\ ~AccelerationTimesDecrease
              /\ ~FixTimesDecrease)
               => SenseboxParsed)

\* two fixes, both at 0 s, and one acceleration: parse has raised
C16_Witness ==
    /\ SenseboxAborted
    /\ exception.type = "ValueError"
    /\ Len(Fixes) = 2
    /\ Fixes[1].receiveTime = 0
    /\ Fixes[2].receiveTime = 0
    /\ Len(AccelerationEntries(DataJson.rawAccelerationsRecords)) = 1

-----------------------------------------------------------------------------
(* The order of the positions of a Track.                                  *)

\* the log records of a level
LoggedAt(level) == { i \in 1..Len(log) : log[i].level = level }

\* C21: the positions of a Track are ordered non-decreasing by time stamp;
\* when parse has extracted two consecutive positions whose time stamps
\* decrease it still returns the Track, with the positions in the order of
\* extraction, and logs a warning.
C21_DecreasingTimestampsAreWarnedOf ==
    [][(Checked /\ ~NonDecreasing(positions))
         => /\ status' = "returned"
            /\ positions' = positions
            /\ LoggedAt("warning")' # {}]_vars

\* two complete messages, the second one second before the first: the Track
\* of their 50 positions is returned and no warning is logged
C21_Witness ==
    /\ status = "returned"
    /\ Len(positions) = 50
    /\ positions[25].ts > positions[26].ts
    /\ LoggedAt("warning") = {}
    /\ Logged("Parsed track spanning") # {}

-----------------------------------------------------------------------------
(* The window of the rolling average.                                      *)

\* the last call is one of the two rolling-average operations, on a track
\* that has positions
RollingCalled ==
    /\ call # <<>>
    /\ call[1].op \in {"rolling_average_absolute_accels",
                       "ensure_rolling_average_absolute_accels"}
    /\ positions # <<>>

\* position i holds a value under the key of the last call
KeyHeld(i) ==
    ItemsUnder(positions[i], call[1].window, call[1].attenuator) # {}

\* what position i holds under the key of the last call is the mean of
\* |acceleration| over a run of consecutive positions that ends at i
MeanOverRunEndingAt(i) ==
    \E first \in 1..i :
        \A item \in ItemsUnder(positions[i], call[1].window,
                               call[1].attenuator) :
            IsMeanOver(item.value, positions, first..i)

\* the call has raised nothing and every position holds the key; without an
\* attenuator, what it holds is the mean over a run ending at the position
WindowIsSafe ==
    /\ call[1].raised = ""
    /\ \A i \in 1..Len(positions) :
          /\ KeyHeld(i)
          /\ call[1].attenuator = <<>> => MeanOverRunEndingAt(i)

\* the call has failed with IndexError and no position holds the key
WindowHasFailed ==
    /\ call[1].raised = "IndexError"
    /\ \A i \in 1..Len(positions) : ~KeyHeld(i)

\* a number of seconds below minus half a microsecond
BelowHalfAMicrosecond(seconds) ==
    2 * 1000000 * seconds.num < 0 - seconds.den

====
